---- MODULE Spec2Model ----
(***************************************************************************)
(* Model of the NOAA Atlas 14 grid pipeline of download_noaa_grids.py:     *)
(* NOAAGrids.process_grids, the fetch pool of get_noaa_grids with the      *)
(* retry loop of NOAADownloader.download_and_unzip_noaa_grid, the mosaic   *)
(* pool of combine_multiple_zones and the loop of                          *)
(* process_confidence_intervals.                                           *)
(***************************************************************************)
EXTENDS Integers, Sequences, FiniteSets, TLC

(***************************************************************************)
(* Program constants (class Config and the pool size).                     *)
(***************************************************************************)
MAX_RETRIES == 3

VALID_EVENTS == {"1", "2", "5", "10", "25", "50", "100", "200", "500", "1000"}

VALID_DURATIONS == {"05m", "10m", "15m", "30m", "60m", "02h", "03h", "06h", "12h", "24h"}

FetchWorkers == 4

(***************************************************************************)
(* Bounds of the model: the longest task list a run builds, the failed     *)
(* fetch attempts, os.cpu_count(), the pixel values of a raster and the    *)
(* calls of process_grids on one directory.                                *)
(***************************************************************************)
MaxTasks == 6

MaxFaults == 3

CpuCount == 2

\* The largest value of a pixel of a raster.
MaxValue == 2

\* The calls of process_grids on one base_dir.
MaxRuns == 2

(***************************************************************************)
(* The inputs the model draws from: events and durations a caller may pass *)
(* (valid and invalid ones) and the zone codes the zone layer may hold.    *)
(***************************************************************************)
EventChoices == {"100", "10", "3", "5", "25"}

DurChoices == {"24h", "06h", "48h"}

ZoneCodes == {"se", "orb", "Atlas2"}

Variants == {"", "u", "l"}

\* The event lists and duration lists a caller passes in the model: empty,
\* one element, two different elements, a repeated element, and lists with
\* an element outside the valid enumerations.
EventLists ==
    {<< >>, <<"100">>, <<"10">>, <<"10", "100">>, <<"10", "10">>, <<"3">>, <<"100", "3">>}

DurLists ==
    {<< >>, <<"24h">>, <<"24h", "06h">>, <<"48h">>, <<"48h", "24h">>}

Range(s) == {s[i] : i \in DOMAIN s}

(***************************************************************************)
(* A directory is a function from the names of the files it holds to their *)
(* contents: "full" for a complete file, "bad" for a truncated or corrupt  *)
(* one.                                                                    *)
(***************************************************************************)
EmptyDir == [x \in {} |-> "full"]

WriteFile(dir, name, content) ==
    [x \in (DOMAIN dir) \cup {name} |-> IF x = name THEN content ELSE dir[x]]

Unlink(dir, name) == [x \in (DOMAIN dir) \ {name} |-> dir[x]]

Exists(dir, name) == name \in DOMAIN dir

(***************************************************************************)
(* File names.                                                             *)
(***************************************************************************)
BasePattern(zone, event, duration) == zone \o event \o "yr" \o duration \o "a"

Stems ==
    {[stem |-> BasePattern(z, e, d) \o v, zone |-> z, event |-> e, dur |-> d, var |-> v] :
        z \in ZoneCodes, e \in EventChoices, d \in DurChoices, v \in Variants}

\* The raster an archive of the publisher holds: the archive's name with the
\* extension .asc in place of .zip.
ArchiveMember(fname) ==
    (CHOOSE s \in Stems : s.stem \o ".zip" = fname).stem \o ".asc"

(***************************************************************************)
(* get_noaa_grids: the task list, in the order of the three nested loops.  *)
(***************************************************************************)
\* Variant of TasksFor without the condition of line 256.
TasksForAllVariants(zone, event, duration, CI) ==
    LET base_pattern == BasePattern(zone, event, duration)
    IN  << <<zone, base_pattern \o ".zip", "NOAA_grids">>,
           <<zone, base_pattern \o "u.zip", "NOAA_grids">>,
           <<zone, base_pattern \o "l.zip", "NOAA_grids">> >>

\* Lines 253-260: the tasks of one iteration of the innermost loop.
TasksFor(zone, event, duration, CI) ==
    LET base_pattern == BasePattern(zone, event, duration)
    IN  << <<zone, base_pattern \o ".zip", "NOAA_grids">> >> \o
        (IF event = "100" /\ CI
            THEN << <<zone, base_pattern \o "u.zip", "NOAA_grids">>,
                    <<zone, base_pattern \o "l.zip", "NOAA_grids">> >>
            ELSE << >>)

RECURSIVE DurLoop(_, _, _, _)
DurLoop(zone, event, durs, CI) ==
    IF durs = << >> THEN << >>
    ELSE TasksFor(zone, event, Head(durs), CI) \o DurLoop(zone, event, Tail(durs), CI)

RECURSIVE EventLoop(_, _, _, _)
EventLoop(zone, events, durs, CI) ==
    IF events = << >> THEN << >>
    ELSE DurLoop(zone, Head(events), durs, CI) \o EventLoop(zone, Tail(events), durs, CI)

RECURSIVE FileTasks(_, _, _, _)
FileTasks(zones, events, durs, CI) ==
    IF zones = << >> THEN << >>
    ELSE EventLoop(Head(zones), events, durs, CI) \o FileTasks(Tail(zones), events, durs, CI)

(***************************************************************************)
(* find_noaa_zones: the distinct codes of the intersecting zones, without  *)
(* the code "Atlas2".                                                      *)
(***************************************************************************)
RECURSIVE DropAtlas2(_)
DropAtlas2(zs) ==
    IF zs = << >> THEN << >>
    ELSE IF Head(zs) # "Atlas2" THEN <<Head(zs)>> \o DropAtlas2(Tail(zs))
    ELSE DropAtlas2(Tail(zs))

\* The results of the spatial query the model draws from.
ZoneQueryResults ==
    {<< >>, <<"Atlas2">>, <<"se">>, <<"se", "Atlas2", "orb">>}

(***************************************************************************)
(* State.                                                                  *)
(***************************************************************************)
VARIABLES
    event_list,     \* argument of process_grids
    dur_list,       \* argument of process_grids
    CI_100yr,       \* argument of process_grids
    pc,             \* position of the thread that runs process_grids
    calls,          \* the steps invoked so far in this run
    dirs,           \* directories created under base_dir
    grids,          \* contents of base_dir/NOAA_grids
    mosaic,         \* contents of base_dir/NOAA_grids_mosaic
    zone_list,      \* result of find_noaa_zones
    file_tasks,     \* the task list of get_noaa_grids
    fstate,         \* state of the future of every fetch task
    attempt,        \* loop variable of the retry loop of every fetch task
    slept,          \* the delays every fetch task has slept, in order
    faults,         \* failed fetch attempts so far
    mosaic_tasks,   \* the task list of combine_multiple_zones
    mstate,         \* state of the future of every mosaic task
    grids_folder,   \* the folder process_grids hands to the last step
    dur_index,      \* position of process_confidence_intervals in dur_list
    handles,        \* the raster handles of mosaic tasks that are open
    ci_log,         \* what process_confidence_intervals did for every duration
    run,            \* number of the call of process_grids on this base_dir
    sources,        \* the arrays a raster operation reads
    written         \* the arrays a raster operation writes

fetch_vars == <<zone_list, file_tasks, fstate, attempt, slept, faults>>

mosaic_vars == <<mosaic_tasks, mstate>>

input_vars == <<event_list, dur_list, CI_100yr>>

raster_vars == <<sources, written>>

vars == <<event_list, dur_list, CI_100yr, pc, calls, dirs, grids, mosaic,
          zone_list, file_tasks, fstate, attempt, slept, faults,
          mosaic_tasks, mstate, grids_folder, dur_index,
          handles, ci_log, run, sources, written>>

Tasks == DOMAIN file_tasks

Init ==
    /\ event_list \in EventLists
    /\ dur_list \in DurLists
    /\ CI_100yr \in BOOLEAN
    /\ pc = "start"
    /\ calls = {}
    /\ dirs = {}
    /\ grids = EmptyDir
    /\ mosaic = EmptyDir
    /\ zone_list = << >>
    /\ file_tasks = << >>
    /\ fstate = << >>
    /\ attempt = << >>
    /\ slept = << >>
    /\ faults = 0
    /\ mosaic_tasks = << >>
    /\ mstate = << >>
    /\ grids_folder = "none"
    /\ dur_index = 0
    /\ handles = {}
    /\ ci_log = << >>
    /\ run = 1
    /\ sources = << >>
    /\ written = << >>

(***************************************************************************)
(* process_grids, lines 217-220: validation of the two lists.              *)
(***************************************************************************)
\* Variant of InputsValid without the check of line 219.
EventsOnlyValid(events, durs) == Range(events) \subseteq VALID_EVENTS

InputsValid(events, durs) ==
    /\ Range(events) \subseteq VALID_EVENTS
    /\ Range(durs) \subseteq VALID_DURATIONS

Validate ==
    /\ pc = "start"
    /\ pc' = IF InputsValid(event_list, dur_list) THEN "get_noaa_grids" ELSE "raised"
    /\ UNCHANGED <<event_list, dur_list, CI_100yr, calls, dirs, grids, mosaic,
                   zone_list, file_tasks, fstate, attempt, slept, faults,
                   mosaic_tasks, mstate, grids_folder, dur_index,
                   handles, ci_log, run, raster_vars>>

(***************************************************************************)
(* get_noaa_grids, lines 243-264: the output directory, the zones, the     *)
(* task list and its submission to the pool by executor.map.               *)
(***************************************************************************)
MakeGridsFolder ==
    /\ pc = "get_noaa_grids"
    /\ calls' = calls \cup {"get_noaa_grids"}
    /\ dirs' = dirs \cup {"NOAA_grids"}
    /\ pc' = "find_noaa_zones"
    /\ UNCHANGED <<event_list, dur_list, CI_100yr, grids, mosaic, zone_list,
                   file_tasks, fstate, attempt, slept, faults,
                   mosaic_tasks, mstate, grids_folder, dur_index,
                   handles, ci_log, run, raster_vars>>

\* Reading either shapefile fails: find_noaa_zones logs and raises.
FindZonesFails ==
    /\ pc = "find_noaa_zones"
    /\ calls' = calls \cup {"find_noaa_zones"}
    /\ pc' = "raised"
    /\ UNCHANGED <<event_list, dur_list, CI_100yr, dirs, grids, mosaic, zone_list,
                   file_tasks, fstate, attempt, slept, faults,
                   mosaic_tasks, mstate, grids_folder, dur_index,
                   handles, ci_log, run, raster_vars>>

\* The futures after the submission of a task list to a pool: submit starts
\* a worker thread for each of the first max_workers items, which takes its
\* item from the queue; the other items wait in the queue.
Submitted(tasks, max_workers) ==
    [t \in DOMAIN tasks |-> IF t <= max_workers THEN "running" ELSE "queued"]

FindZones(query) ==
    LET zones == DropAtlas2(query)
        tasks == FileTasks(zones, event_list, dur_list, CI_100yr)
    IN  /\ pc = "find_noaa_zones"
        /\ Len(tasks) <= MaxTasks
        /\ calls' = calls \cup {"find_noaa_zones"}
        /\ zone_list' = zones
        /\ file_tasks' = tasks
        /\ fstate' = Submitted(tasks, FetchWorkers)
        /\ attempt' = [t \in DOMAIN tasks |-> 0]
        /\ slept' = [t \in DOMAIN tasks |-> << >>]
        /\ pc' = "fetch"
        /\ UNCHANGED <<event_list, dur_list, CI_100yr, dirs, grids, mosaic, faults,
                   mosaic_tasks, mstate, grids_folder, dur_index,
                   handles, ci_log, run, raster_vars>>

(***************************************************************************)
(* The workers of the fetch pool.  A worker that has finished an item      *)
(* takes the oldest work item of the queue; at most FetchWorkers items run *)
(* at a time.                                                              *)
(***************************************************************************)
Busy(st) == {t \in DOMAIN st : st[t] \in {"running", "sleeping"}}

StartFetch(t) ==
    /\ t \in Tasks
    /\ fstate[t] = "queued"
    /\ \A u \in Tasks : u < t => fstate[u] # "queued"
    /\ Cardinality(Busy(fstate)) < FetchWorkers
    /\ fstate' = [fstate EXCEPT ![t] = "running"]
    /\ UNCHANGED <<event_list, dur_list, CI_100yr, pc, calls, dirs, grids, mosaic,
                   zone_list, file_tasks, attempt, slept, faults,
                   mosaic_tasks, mstate, grids_folder, dur_index,
                   handles, ci_log, run, raster_vars>>

(***************************************************************************)
(* download_and_unzip_noaa_grid, lines 62-82: one iteration of the retry   *)
(* loop.  The outcome of the attempt is the step that raises, if any.      *)
(***************************************************************************)
AttemptOutcomes == {"ok", "request", "write", "extract", "extract_partial"}

\* Variant of DownloadAndUnzip without the unlink of line 73.
KeepArchive(dir, archive) ==
    WriteFile(WriteFile(dir, archive, "full"), ArchiveMember(archive), "full")

\* Lines 64-74 without an exception: the archive is written, its member is
\* extracted and the archive is deleted.
DownloadAndUnzip(dir, archive) ==
    Unlink(WriteFile(WriteFile(dir, archive, "full"), ArchiveMember(archive), "full"),
           archive)

\* Lines 64-72 up to the step that raises.
FailedBody(dir, archive, outcome) ==
    CASE outcome = "request" -> dir
      [] outcome = "write" -> WriteFile(dir, archive, "bad")
      [] outcome = "extract" -> WriteFile(dir, archive, "bad")
      [] outcome = "extract_partial" ->
            WriteFile(WriteFile(dir, archive, "bad"), ArchiveMember(archive), "bad")

\* Variant of FinalCleanup that leaves the archive.
NoCleanup(dir, archive) == dir

\* Lines 79-80.
FinalCleanup(dir, archive) ==
    IF Exists(dir, archive) THEN Unlink(dir, archive) ELSE dir

\* Variant of Backoff with a delay linear in the attempt.
LinearBackoff(att) == 2 * att

\* Line 82.
Backoff(att) == 2 ^ att

LastAttempt(att) == att = MAX_RETRIES - 1

\* A task that slept goes to the next iteration of the loop.
Attempt(t, outcome) ==
    LET archive == file_tasks[t][2]
        att == IF fstate[t] = "sleeping" THEN attempt[t] + 1 ELSE attempt[t]
    IN
    /\ t \in Tasks
    /\ fstate[t] \in {"running", "sleeping"}
    /\ attempt' = [attempt EXCEPT ![t] = att]
    /\ IF outcome = "ok"
       THEN /\ grids' = DownloadAndUnzip(grids, archive)
            /\ fstate' = [fstate EXCEPT ![t] = "done"]
            /\ UNCHANGED <<slept, faults>>
       ELSE /\ faults < MaxFaults
            /\ faults' = faults + 1
            /\ IF LastAttempt(att)
               THEN /\ grids' = FinalCleanup(FailedBody(grids, archive, outcome), archive)
                    /\ fstate' = [fstate EXCEPT ![t] = "failed"]
                    /\ UNCHANGED slept
               ELSE /\ grids' = FailedBody(grids, archive, outcome)
                    /\ slept' = [slept EXCEPT ![t] = Append(@, Backoff(att))]
                    /\ fstate' = [fstate EXCEPT ![t] = "sleeping"]
    /\ UNCHANGED <<event_list, dur_list, CI_100yr, pc, calls, dirs, mosaic,
                   zone_list, file_tasks,
                   mosaic_tasks, mstate, grids_folder, dur_index,
                   handles, ci_log, run, raster_vars>>

(***************************************************************************)
(* get_noaa_grids, lines 262-266: list() takes the results of executor.map *)
(* in submission order, so it is blocked on the first future that has not  *)
(* returned.  The result of a failed task raises; the iterator of          *)
(* executor.map then cancels the futures it has not yielded yet, which     *)
(* succeeds for those still in the queue.  Leaving the with block waits    *)
(* for the pool (shutdown(wait=True)).                                     *)
(***************************************************************************)
\* Variant of ResultRaises in which the result of a failed task is dropped.
IgnoreFailure(st) == FALSE

\* future.result() re-raises the exception of the task.
ResultRaises(st) == st = "failed"

Yielded(st) == st = "done" \/ (st = "failed" /\ ~ResultRaises(st))

\* The index of the future list() is blocked on; Len + 1 when all are yielded.
Cursor(states) ==
    IF \A t \in DOMAIN states : Yielded(states[t]) THEN Len(states) + 1
    ELSE CHOOSE t \in DOMAIN states :
            /\ ~Yielded(states[t])
            /\ \A u \in DOMAIN states : u < t => Yielded(states[u])

CancelAfter(states, k) ==
    [t \in DOMAIN states |->
        IF t > k /\ states[t] = "queued" THEN "cancelled" ELSE states[t]]

ResultRaisesInList ==
    /\ pc = "fetch"
    /\ Cursor(fstate) \in Tasks
    /\ ResultRaises(fstate[Cursor(fstate)])
    /\ fstate' = CancelAfter(fstate, Cursor(fstate))
    /\ pc' = "fetch_raising"
    /\ UNCHANGED <<event_list, dur_list, CI_100yr, calls, dirs, grids, mosaic,
                   zone_list, file_tasks, attempt, slept, faults,
                   mosaic_tasks, mstate, grids_folder, dur_index,
                   handles, ci_log, run, raster_vars>>

\* Variant of PoolDrained for shutdown(wait=False).
NoWait(states) == TRUE

\* shutdown(wait=True) returns when no work item is queued or running.
PoolDrained(states) ==
    \A t \in DOMAIN states : states[t] \notin {"queued", "running", "sleeping"}

FetchRaises ==
    /\ pc = "fetch_raising"
    /\ PoolDrained(fstate)
    /\ pc' = "raised"
    /\ UNCHANGED <<event_list, dur_list, CI_100yr, calls, dirs, grids, mosaic,
                   zone_list, file_tasks, fstate, attempt, slept, faults,
                   mosaic_tasks, mstate, grids_folder, dur_index,
                   handles, ci_log, run, raster_vars>>

FetchReturns ==
    /\ pc = "fetch"
    /\ Cursor(fstate) = Len(file_tasks) + 1
    /\ PoolDrained(fstate)
    /\ pc' = "fetched"
    /\ UNCHANGED <<event_list, dur_list, CI_100yr, calls, dirs, grids, mosaic,
                   zone_list, file_tasks, fstate, attempt, slept, faults,
                   mosaic_tasks, mstate, grids_folder, dur_index,
                   handles, ci_log, run, raster_vars>>

(***************************************************************************)
(* combine_multiple_zones, lines 270-293: the groups of rasters of         *)
(* NOAA_grids, one per event, duration and variant, that have more than    *)
(* one member.                                                             *)
(***************************************************************************)
\* The characters of the pieces file names are made of.
CharsOf(piece) ==
    CASE piece = "" -> << >>
      [] piece = "se" -> <<"s", "e">>
      [] piece = "orb" -> <<"o", "r", "b">>
      [] piece = "Atlas2" -> <<"A", "t", "l", "a", "s", "2">>
      [] piece = "comb" -> <<"c", "o", "m", "b">>
      [] piece = "3" -> <<"3">>
      [] piece = "5" -> <<"5">>
      [] piece = "10" -> <<"1", "0">>
      [] piece = "25" -> <<"2", "5">>
      [] piece = "100" -> <<"1", "0", "0">>
      [] piece = "1000" -> <<"1", "0", "0", "0">>
      [] piece = "yr" -> <<"y", "r">>
      [] piece = "24h" -> <<"2", "4", "h">>
      [] piece = "06h" -> <<"0", "6", "h">>
      [] piece = "48h" -> <<"4", "8", "h">>
      [] piece = "a" -> <<"a">>
      [] piece = "u" -> <<"u">>
      [] piece = "l" -> <<"l">>
      [] piece = "_plus" -> <<"_", "p", "l", "u", "s">>
      [] piece = "_minus" -> <<"_", "m", "i", "n", "u", "s">>
      [] piece = ".asc" -> <<".", "a", "s", "c">>
      [] piece = ".zip" -> <<".", "z", "i", "p">>

\* The events in the file names of a directory: those of the model's runs and
\* valid events whose digits end with, or start with, those of another.
NameEvents == <<"100", "10", "3", "5", "25", "1000">>

\* The prefixes a file name of the model can have before {event}yr.
NamePrefixes == <<"se", "orb", "Atlas2", "comb">>

NameDurs == <<"24h", "06h", "48h">>

\* The variants, and the suffixes of line 194.
NameSuffixes == <<"", "u", "l", "_plus", "_minus">>

NameExtensions == <<".asc", ".zip">>

NameCount ==
    Len(NamePrefixes) * Len(NameEvents) * Len(NameDurs) * Len(NameSuffixes) * Len(NameExtensions)

\* The pieces of the k-th file name of the model: a raster or an archive of
\* the publisher, a mosaic, or a _plus or _minus raster.
NamePieces(k) ==
    LET x == k % Len(NameExtensions)
        k1 == k \div Len(NameExtensions)
        v == k1 % Len(NameSuffixes)
        k2 == k1 \div Len(NameSuffixes)
        d == k2 % Len(NameDurs)
        k3 == k2 \div Len(NameDurs)
        e == k3 % Len(NameEvents)
        p == k3 \div Len(NameEvents)
    IN  <<NamePrefixes[p + 1], NameEvents[e + 1], "yr", NameDurs[d + 1], "a",
          NameSuffixes[v + 1], NameExtensions[x + 1]>>

RECURSIVE Joined(_)
Joined(pieces) ==
    IF pieces = << >> THEN "" ELSE Head(pieces) \o Joined(Tail(pieces))

RECURSIVE JoinedChars(_)
JoinedChars(pieces) ==
    IF pieces = << >> THEN << >> ELSE CharsOf(Head(pieces)) \o JoinedChars(Tail(pieces))

\* The characters of the file names lo .. hi of the model, by name.
RECURSIVE CharsTable(_, _)
CharsTable(lo, hi) ==
    IF lo = hi THEN Joined(NamePieces(lo)) :> JoinedChars(NamePieces(lo))
    ELSE CharsTable(lo, (lo + hi) \div 2) @@ CharsTable((lo + hi) \div 2 + 1, hi)

NameChars == CharsTable(0, NameCount - 1)

Chars(name) == NameChars[name]

NameOf(chars) == CHOOSE name \in DOMAIN NameChars : NameChars[name] = chars

Letters ==
    {"a", "b", "c", "d", "e", "f", "g", "h", "i", "j", "k", "l", "m", "n", "o", "p",
     "q", "r", "s", "t", "u", "v", "w", "x", "y", "z", "A", "B", "C", "D", "E", "F",
     "G", "H", "I", "J", "K", "L", "M", "N", "O", "P", "Q", "R", "S", "T", "U", "V",
     "W", "X", "Y", "Z"}

\* The literal part {e}yr{d}a{ci}.asc of the patterns of lines 277-279 and
\* 288-290, in which e, d and ci hold no special character.
Literal(e, d, ci) == JoinedChars(<<e, "yr", d, "a", ci, ".asc">>)

\* glob("*" + literal): the name ends with the literal.
GlobMatch(chars, literal) ==
    /\ Len(chars) >= Len(literal)
    /\ SubSeq(chars, Len(chars) - Len(literal) + 1, Len(chars)) = literal

\* Variant of RegexMatch that accepts every name.
NoRegex(chars, literal) == TRUE

\* re.search of ^[a-zA-Z]+ followed by the literal and $: one or more
\* letters, then the literal, and nothing else.
RegexMatch(chars, literal) ==
    /\ Len(chars) > Len(literal)
    /\ SubSeq(chars, Len(chars) - Len(literal) + 1, Len(chars)) = literal
    /\ \A i \in 1..(Len(chars) - Len(literal)) : chars[i] \in Letters

\* Lines 276-279 and 287-290: the names the glob yields, filtered by the
\* regular expression.
GroupRasters(dir, e, d, ci) ==
    {f \in DOMAIN dir :
        /\ GlobMatch(Chars(f), Literal(e, d, ci))
        /\ RegexMatch(Chars(f), Literal(e, d, ci))}

GroupTask(dir, e, d, ci) ==
    IF Cardinality(GroupRasters(dir, e, d, ci)) > 1
    THEN <<[rasters |-> GroupRasters(dir, e, d, ci), event |-> e, dur |-> d, CI |-> ci]>>
    ELSE << >>

GroupTasksFor(dir, e, d) ==
    GroupTask(dir, e, d, "") \o
    (IF e = "100" THEN GroupTask(dir, e, d, "u") \o GroupTask(dir, e, d, "l") ELSE << >>)

RECURSIVE GroupDurLoop(_, _, _)
GroupDurLoop(dir, e, durs) ==
    IF durs = << >> THEN << >>
    ELSE GroupTasksFor(dir, e, Head(durs)) \o GroupDurLoop(dir, e, Tail(durs))

RECURSIVE MosaicTasks(_, _, _)
MosaicTasks(dir, events, durs) ==
    IF events = << >> THEN << >>
    ELSE GroupDurLoop(dir, Head(events), durs) \o MosaicTasks(dir, Tail(events), durs)

(***************************************************************************)
(* process_grids, lines 226-230: the mosaic step runs for more than one    *)
(* zone; otherwise the last step reads NOAA_grids.                         *)
(***************************************************************************)
\* Variant of SeveralZones that also holds for one zone.
AnyZone(zones) == Len(zones) > 0

\* Line 226.
SeveralZones(zones) == Len(zones) > 1

CombineMultipleZones ==
    /\ pc = "fetched"
    /\ SeveralZones(zone_list)
    /\ calls' = calls \cup {"combine_multiple_zones"}
    /\ mosaic_tasks' = MosaicTasks(grids, event_list, dur_list)
    /\ mstate' = Submitted(mosaic_tasks', CpuCount)
    /\ pc' = "mosaic"
    /\ UNCHANGED <<input_vars, fetch_vars, dirs, grids, mosaic, grids_folder, dur_index,
                   handles, ci_log, run, raster_vars>>

SkipMosaic ==
    /\ pc = "fetched"
    /\ ~SeveralZones(zone_list)
    /\ grids_folder' = "NOAA_grids"
    /\ pc' = "grids_folder_set"
    /\ UNCHANGED <<input_vars, fetch_vars, mosaic_vars, calls, dirs, grids, mosaic,
                   dur_index,
                   handles, ci_log, run, raster_vars>>

(***************************************************************************)
(* The workers of the mosaic pool (max_workers=os.cpu_count()) and         *)
(* mosaic_list_of_rasters, lines 132-159.                                  *)
(***************************************************************************)
\* The outcome of a call: the step that raises, if any.
MosaicOutcomes == {"ok", "pattern", "open", "merge", "write"}

OutputName(task) == "comb" \o task.event \o "yr" \o task.dur \o "a" \o task.CI \o ".asc"

\* Line 136: every name matches ^[a-zA-Z]+{event}yr{dur}a[ul]?\.asc$
PatternCheck(task) ==
    \A f \in task.rasters :
        \E ul \in {"", "u", "l"} : RegexMatch(Chars(f), Literal(task.event, task.dur, ul))

StartMosaic(t) ==
    /\ t \in DOMAIN mstate
    /\ mstate[t] = "queued"
    /\ \A u \in DOMAIN mstate : u < t => mstate[u] # "queued"
    /\ Cardinality(Busy(mstate)) < CpuCount
    /\ mstate' = [mstate EXCEPT ![t] = "running"]
    /\ UNCHANGED <<input_vars, fetch_vars, pc, calls, dirs, grids, mosaic,
                   mosaic_tasks, grids_folder, dur_index,
                   handles, ci_log, run, raster_vars>>

\* Variant of CloseSources that closes nothing.
KeepSources(open, t) == open

\* Lines 157-159: the finally clause closes every handle in sources.
CloseSources(open, t) == {h \in open : h[1] # t}

\* Line 142 opens the rasters in the order of the list, before the try of
\* line 143: when an open raises, the list is not bound to sources and the
\* files opened before it are not closed by the finally clause.  The order
\* of the list is that of the directory listing: the files opened before the
\* failing one are any set of the others.
MosaicListOfRasters(t, outcome) ==
    LET task == mosaic_tasks[t]
        Opened(files) == handles \cup {<<t, f>> : f \in files}
    IN
    /\ t \in DOMAIN mstate
    /\ mstate[t] = "running"
    /\ outcome = "pattern" <=> ~PatternCheck(task)
    /\ dirs' = dirs \cup {"NOAA_grids_mosaic"}
    /\ mosaic' = CASE outcome = "ok" -> WriteFile(mosaic, OutputName(task), "full")
                   [] outcome = "write" -> WriteFile(mosaic, OutputName(task), "bad")
                   [] OTHER -> mosaic
    /\ CASE outcome = "pattern" -> handles' = handles
         [] outcome = "open" ->
               \E files \in SUBSET task.rasters :
                   /\ files # task.rasters
                   /\ handles' = Opened(files)
         [] OTHER -> handles' = CloseSources(Opened(task.rasters), t)
    /\ mstate' = [mstate EXCEPT ![t] = IF outcome = "ok" THEN "done" ELSE "failed"]
    /\ UNCHANGED <<input_vars, fetch_vars, pc, calls, grids, mosaic_tasks,
                   grids_folder, dur_index, ci_log, run, raster_vars>>

(***************************************************************************)
(* combine_multiple_zones, lines 295-303: future.result() of every task in *)
(* submission order; leaving the with block waits for the pool.            *)
(***************************************************************************)
MosaicResultRaises ==
    /\ pc = "mosaic"
    /\ Cursor(mstate) \in DOMAIN mstate
    /\ ResultRaises(mstate[Cursor(mstate)])
    /\ pc' = "mosaic_raising"
    /\ UNCHANGED <<input_vars, fetch_vars, mosaic_vars, calls, dirs, grids, mosaic,
                   grids_folder, dur_index,
                   handles, ci_log, run, raster_vars>>

MosaicRaises ==
    /\ pc = "mosaic_raising"
    /\ PoolDrained(mstate)
    /\ pc' = "raised"
    /\ UNCHANGED <<input_vars, fetch_vars, mosaic_vars, calls, dirs, grids, mosaic,
                   grids_folder, dur_index,
                   handles, ci_log, run, raster_vars>>

MosaicReturns ==
    /\ pc = "mosaic"
    /\ Cursor(mstate) = Len(mosaic_tasks) + 1
    /\ PoolDrained(mstate)
    /\ grids_folder' = "NOAA_grids_mosaic"
    /\ pc' = "grids_folder_set"
    /\ UNCHANGED <<input_vars, fetch_vars, mosaic_vars, calls, dirs, grids, mosaic,
                   dur_index,
                   handles, ci_log, run, raster_vars>>

(***************************************************************************)
(* process_grids, lines 232-233.                                           *)
(***************************************************************************)
WantsCI(events, CI) == "100" \in Range(events) /\ CI

ConfidenceIntervalsOrDone ==
    /\ pc = "grids_folder_set"
    /\ IF WantsCI(event_list, CI_100yr)
       THEN /\ calls' = calls \cup {"process_confidence_intervals"}
            /\ dur_index' = 1
            /\ pc' = "confidence_intervals"
       ELSE /\ pc' = "done"
            /\ UNCHANGED <<calls, dur_index>>
    /\ UNCHANGED <<input_vars, fetch_vars, mosaic_vars, dirs, grids, mosaic, grids_folder,
                   handles, ci_log, run, raster_vars>>

(***************************************************************************)
(* process_confidence_intervals, lines 309-320: one iteration of the loop  *)
(* over dur_list, with compute_1pct_plus_and_minus, lines 165-201.         *)
(***************************************************************************)
\* glob("*100yr{dur}a{ci}.asc")
Glob100yr(dir, dur, ci) ==
    {f \in DOMAIN dir : GlobMatch(Chars(f), Literal("100", dur, ci))}

\* Path(path_to_100yr).stem: the name without its last suffix.
Stem(f) ==
    LET chars == Chars(f)
        dot == CHOOSE i \in DOMAIN chars :
                  chars[i] = "." /\ \A j \in DOMAIN chars : j > i => chars[j] # "."
    IN  SubSeq(chars, 1, dot - 1)

\* Line 195: f"{filename_100yr}{suffix}.asc"
OutputPath(base, suffix) == NameOf(Stem(base) \o CharsOf(suffix) \o CharsOf(".asc"))

ComputeOutcomes == {"ok", "read", "write_plus", "write_minus"}

\* The files of the folder after compute_1pct_plus_and_minus on base.
Compute1pctPlusAndMinus(dir, base, outcome) ==
    CASE outcome = "ok" ->
            WriteFile(WriteFile(dir, OutputPath(base, "_plus"), "full"),
                      OutputPath(base, "_minus"), "full")
      [] outcome = "read" -> dir
      [] outcome = "write_plus" -> WriteFile(dir, OutputPath(base, "_plus"), "bad")
      [] outcome = "write_minus" ->
            WriteFile(WriteFile(dir, OutputPath(base, "_plus"), "full"),
                      OutputPath(base, "_minus"), "bad")

FolderDir == IF grids_folder = "NOAA_grids_mosaic" THEN mosaic ELSE grids

\* Variant of Caught in which no handler takes the exception.
CaughtNone(outcome) == FALSE

\* Lines 318-320: the exceptions compute_1pct_plus_and_minus re-raises
\* (line 201) are taken by "except Exception", which logs and goes on.
Caught(outcome) == outcome \in ComputeOutcomes \ {"ok"}

\* Lines 316-317, StopIteration: one of the three globs is empty.  The
\* handler logs and the loop goes on.
MissingFiles ==
    /\ pc = "confidence_intervals"
    /\ dur_index \in DOMAIN dur_list
    /\ \E ci \in Variants : Glob100yr(FolderDir, dur_list[dur_index], ci) = {}
    /\ ci_log' = Append(ci_log, [dur |-> dur_list[dur_index], base |-> "", upper |-> "",
                                 lower |-> "", result |-> "missing"])
    /\ dur_index' = dur_index + 1
    /\ UNCHANGED <<input_vars, fetch_vars, mosaic_vars, pc, calls, dirs, grids, mosaic,
                   grids_folder, handles, run, raster_vars>>

\* Lines 311-315: next() takes the first path each glob yields, in the
\* order of the directory listing, which is any of the matching files.
ProcessDuration(base, outcome) ==
    /\ pc = "confidence_intervals"
    /\ dur_index \in DOMAIN dur_list
    /\ \A ci \in Variants : Glob100yr(FolderDir, dur_list[dur_index], ci) # {}
    /\ base \in Glob100yr(FolderDir, dur_list[dur_index], "")
    /\ \E upper \in Glob100yr(FolderDir, dur_list[dur_index], "u"),
          lower \in Glob100yr(FolderDir, dur_list[dur_index], "l") :
          ci_log' = Append(ci_log, [dur |-> dur_list[dur_index], base |-> base,
                                    upper |-> upper, lower |-> lower, result |-> outcome])
    /\ IF grids_folder = "NOAA_grids_mosaic"
       THEN /\ mosaic' = Compute1pctPlusAndMinus(mosaic, base, outcome)
            /\ UNCHANGED grids
       ELSE /\ grids' = Compute1pctPlusAndMinus(grids, base, outcome)
            /\ UNCHANGED mosaic
    /\ dur_index' = dur_index + 1
    /\ pc' = IF outcome = "ok" \/ Caught(outcome) THEN pc ELSE "raised"
    /\ UNCHANGED <<input_vars, fetch_vars, mosaic_vars, calls, dirs, grids_folder,
                   handles, run, raster_vars>>

ConfidenceIntervalsReturn ==
    /\ pc = "confidence_intervals"
    /\ dur_index = Len(dur_list) + 1
    /\ pc' = "done"
    /\ UNCHANGED <<input_vars, fetch_vars, mosaic_vars, calls, dirs, grids, mosaic,
                   grids_folder, dur_index,
                   handles, ci_log, run, raster_vars>>

Next ==
    \/ Validate
    \/ MakeGridsFolder
    \/ FindZonesFails
    \/ \E query \in ZoneQueryResults : FindZones(query)
    \/ \E t \in Tasks : StartFetch(t)
    \/ \E t \in Tasks, o \in AttemptOutcomes : Attempt(t, o)
    \/ ResultRaisesInList
    \/ FetchRaises
    \/ FetchReturns
    \/ CombineMultipleZones
    \/ SkipMosaic
    \/ \E t \in DOMAIN mstate : StartMosaic(t)
    \/ \E t \in DOMAIN mstate, o \in MosaicOutcomes : MosaicListOfRasters(t, o)
    \/ MosaicResultRaises
    \/ MosaicRaises
    \/ MosaicReturns
    \/ ConfidenceIntervalsOrDone
    \/ MissingFiles
    \/ \E base \in DOMAIN FolderDir, o \in ComputeOutcomes : ProcessDuration(base, o)
    \/ ConfidenceIntervalsReturn

Spec == Init /\ [][Next]_vars

(***************************************************************************)
(* Properties.                                                             *)
(***************************************************************************)
Archive(t) == file_tasks[t][2]

FetchActive == \E t \in DOMAIN fstate : fstate[t] \in {"queued", "running", "sleeping"}

MosaicActive == \E t \in DOMAIN mstate : mstate[t] \in {"queued", "running", "sleeping"}

\* C1: a call whose event list or duration list is not a subset of the valid
\* enumerations ends in the validation error, and nothing has been done
\* before it: no directory created, no shapefile read, no fetch task made or
\* started, no file written.
C1_InvalidInputFailsBeforeIO ==
    (~(Range(event_list) \subseteq VALID_EVENTS) \/ ~(Range(dur_list) \subseteq VALID_DURATIONS))
        => /\ pc \in {"start", "raised"}
           /\ calls = {}
           /\ dirs = {}
           /\ grids = EmptyDir
           /\ mosaic = EmptyDir
           /\ file_tasks = << >>
           /\ fstate = << >>

C1_Witness ==
    /\ pc = "raised"
    /\ Range(event_list) \subseteq VALID_EVENTS
    /\ "48h" \in Range(dur_list)
    /\ dirs = {}

\* C2: when zone resolution returned zero zones, no fetch task exists, the
\* mosaic step is not invoked and the confidence-interval step is not invoked.
C2_ZeroZonesStopsPipeline ==
    ("find_noaa_zones" \in calls /\ pc # "raised" /\ zone_list = << >>)
        => /\ file_tasks = << >>
           /\ "combine_multiple_zones" \notin calls
           /\ "process_confidence_intervals" \notin calls

\* C3: the step in which a fetch task ends with its failure (the last attempt
\* failed, at whatever step) leaves no archive file of that task in the
\* destination directory.
C3_NoArchiveAfterExhaustion ==
    [][\A t \in DOMAIN fstate :
          (fstate[t] # "failed" /\ fstate'[t] = "failed")
              => /\ attempt'[t] = MAX_RETRIES - 1
                 /\ ~Exists(grids', Archive(t))]_vars

C3_Witness ==
    \E t \in DOMAIN fstate :
        /\ fstate[t] = "failed"
        /\ ~Exists(grids, Archive(t))
        /\ Exists(grids, ArchiveMember(Archive(t)))
        /\ grids[ArchiveMember(Archive(t))] = "bad"

\* C4: a fetch task that succeeds after N < MAX_RETRIES failed attempts ends
\* as one that succeeds at once: it returns, its archive is absent and its
\* raster is present and complete; and when the fetch call returns, the
\* destination directory holds exactly the complete rasters of the tasks,
\* whatever attempts failed before.
C4_RetryTransparent ==
    [][/\ \A t \in DOMAIN fstate :
              (fstate[t] # "done" /\ fstate'[t] = "done")
                  => /\ attempt'[t] < MAX_RETRIES
                     /\ ~Exists(grids', Archive(t))
                     /\ Exists(grids', ArchiveMember(Archive(t)))
                     /\ grids'[ArchiveMember(Archive(t))] = "full"
       /\ (pc # "fetched" /\ pc' = "fetched")
              => grids' = [f \in {ArchiveMember(Archive(t)) : t \in DOMAIN fstate} |-> "full"]]_vars

C4_Witness ==
    /\ pc = "fetched"
    /\ \E t \in DOMAIN fstate :
          /\ fstate[t] = "done"
          /\ attempt[t] = MAX_RETRIES - 1
          /\ grids[ArchiveMember(Archive(t))] = "full"
          /\ ~Exists(grids, Archive(t))

\* C5: a fetch task makes at most MAX_RETRIES attempts; the delay after the
\* first failed attempt is 1 second and every later delay is the double of
\* the one before; a task that failed made MAX_RETRIES attempts and slept
\* MAX_RETRIES - 1 times, so it did not wait after its last attempt.
C5_ExponentialBackoff ==
    \A t \in DOMAIN fstate :
        /\ attempt[t] + 1 <= MAX_RETRIES
        /\ Len(slept[t]) <= MAX_RETRIES - 1
        /\ \A k \in DOMAIN slept[t] :
              slept[t][k] = IF k = 1 THEN 1 ELSE 2 * slept[t][k - 1]
        /\ fstate[t] = "sleeping" => Len(slept[t]) = attempt[t] + 1
        /\ fstate[t] = "failed" =>
              /\ attempt[t] + 1 = MAX_RETRIES
              /\ Len(slept[t]) = MAX_RETRIES - 1

C5_Witness ==
    \E t \in DOMAIN fstate : fstate[t] = "failed" /\ slept[t] = <<1, 2>>

\* C6: while a fetch task waits for its backoff delay, its archive file does
\* not exist in the destination directory.
C6_NoArchiveWhileWaiting ==
    \A t \in DOMAIN fstate : fstate[t] = "sleeping" => ~Exists(grids, Archive(t))

\* C7: no fetch task is cancelled: every task of the call is executed, also
\* when a sibling exhausted its retries.
C7_NoSiblingCancelled ==
    \A t \in DOMAIN fstate : fstate[t] # "cancelled"

\* C8: once a fetch task has exhausted its retries, the run does not get past
\* the fetch stage: it is in the fetch call or has raised, and neither the
\* mosaic step nor the confidence-interval step has been invoked.
C8_ExhaustionAbortsRun ==
    (\E t \in DOMAIN fstate : fstate[t] = "failed")
        => /\ pc \in {"fetch", "fetch_raising", "raised"}
           /\ "combine_multiple_zones" \notin calls
           /\ "process_confidence_intervals" \notin calls
           /\ mosaic = EmptyDir

C8_Witness ==
    /\ pc = "raised"
    /\ \E t \in DOMAIN fstate : fstate[t] = "failed"
    /\ \E t \in DOMAIN fstate : fstate[t] = "done"

\* C9: while a fetch task is queued or running, the fetch call has neither
\* returned nor raised and no mosaic task exists; while a mosaic task is
\* queued or running, the mosaic call has neither returned nor raised and the
\* confidence-interval step has not been invoked.
C9_StageBarrier ==
    /\ FetchActive =>
          /\ pc \in {"fetch", "fetch_raising"}
          /\ mstate = << >>
          /\ "combine_multiple_zones" \notin calls
          /\ "process_confidence_intervals" \notin calls
    /\ MosaicActive =>
          /\ pc \in {"mosaic", "mosaic_raising"}
          /\ "process_confidence_intervals" \notin calls

C9_Witness ==
    /\ \E t \in DOMAIN mstate : mstate[t] = "running"
    /\ \E t \in DOMAIN mstate : mstate[t] = "failed"
    /\ pc = "mosaic_raising"
    /\ ~FetchActive

\* C10: the archive names of the fetch tasks are exactly the base name of
\* every zone, event and duration and, if and only if confidence intervals
\* are requested, the upper and lower names of every zone and duration of
\* event 100; every task carries the zone of its name; and the list holds
\* one task per position of the three lists and variant.
C10_ExpectedNames ==
    {z \o e \o "yr" \o d \o "a.zip" :
        z \in Range(zone_list), e \in Range(event_list), d \in Range(dur_list)}
    \cup
    {z \o "100yr" \o d \o "a" \o v \o ".zip" :
        z \in Range(zone_list),
        d \in {x \in Range(dur_list) : CI_100yr /\ "100" \in Range(event_list)},
        v \in {"u", "l"}}

C10_TaskSet ==
    /\ {file_tasks[t][2] : t \in DOMAIN file_tasks} = C10_ExpectedNames
    /\ \A t \in DOMAIN file_tasks :
          /\ file_tasks[t][3] = "NOAA_grids"
          /\ \E e \in Range(event_list), d \in Range(dur_list), v \in Variants :
                file_tasks[t][2] = file_tasks[t][1] \o e \o "yr" \o d \o "a" \o v \o ".zip"
    /\ Len(file_tasks) =
          Len(zone_list) * Len(dur_list) *
             (Len(event_list) +
              (IF CI_100yr
                 THEN 2 * Cardinality({i \in DOMAIN event_list : event_list[i] = "100"})
                 ELSE 0))

C10_Witness ==
    /\ CI_100yr
    /\ {file_tasks[t][2] : t \in DOMAIN file_tasks} =
          {"se10yr24ha.zip", "se100yr24ha.zip", "se100yr24hau.zip", "se100yr24hal.zip"}

\* C11: the mosaic step has been invoked only if zone resolution returned
\* more than one zone, and once the run is past the branch it has been
\* invoked if and only if there is more than one zone; the folder handed to
\* the confidence-interval step is NOAA_grids_mosaic when the mosaic step was
\* invoked and NOAA_grids otherwise.
C11_MosaicIffSeveralZones ==
    /\ "combine_multiple_zones" \in calls => Len(zone_list) > 1
    /\ pc \in {"mosaic", "mosaic_raising"} => "combine_multiple_zones" \in calls
    /\ pc \in {"grids_folder_set", "confidence_intervals", "done"} =>
          /\ "combine_multiple_zones" \in calls <=> Len(zone_list) > 1
          /\ grids_folder = IF "combine_multiple_zones" \in calls
                            THEN "NOAA_grids_mosaic" ELSE "NOAA_grids"
    /\ pc \notin {"grids_folder_set", "confidence_intervals", "done"} =>
          /\ grids_folder = "none"
          /\ "process_confidence_intervals" \notin calls

C11_Witness ==
    /\ pc = "confidence_intervals"
    /\ Len(zone_list) = 2
    /\ "combine_multiple_zones" \in calls
    /\ grids_folder = "NOAA_grids_mosaic"

\* C14: a mosaic task that failed does not abort the run: the run does not
\* raise because of it, the other groups are mosaicked and, when confidence
\* intervals are requested, that step is invoked.
C14_MosaicFailureContained ==
    (\E t \in DOMAIN mstate : mstate[t] = "failed")
        => /\ pc # "raised"
           /\ (pc = "done" /\ WantsCI(event_list, CI_100yr))
                 => "process_confidence_intervals" \in calls

\* C18: no two tasks of the fetch pool have the same archive path and no two
\* tasks of the mosaic pool have the same output name.
C18_NoSharedPath ==
    /\ \A t, u \in DOMAIN file_tasks :
          t # u => <<file_tasks[t][3], file_tasks[t][2]>> # <<file_tasks[u][3], file_tasks[u][2]>>
    /\ \A t, u \in DOMAIN mosaic_tasks :
          t # u => OutputName(mosaic_tasks[t]) # OutputName(mosaic_tasks[u])

\* C15: the confidence-interval step never raises; it takes the durations of
\* the list in order, one log entry per duration whatever the outcome of the
\* durations before it (a failed computation or a missing file), and when it
\* has returned every duration of the list has been attempted.
C15_LoopGoesOn ==
    /\ "process_confidence_intervals" \in calls => pc \in {"confidence_intervals", "done"}
    /\ \A i \in DOMAIN ci_log : i \in DOMAIN dur_list /\ ci_log[i].dur = dur_list[i]
    /\ pc = "confidence_intervals" => Len(ci_log) = dur_index - 1
    /\ (pc = "done" /\ "process_confidence_intervals" \in calls)
          => Len(ci_log) = Len(dur_list)

C15_Witness ==
    /\ pc = "done"
    /\ Len(ci_log) = 2
    /\ ci_log[1].result \in {"read", "write_plus", "write_minus"}
    /\ ci_log[2].result = "ok"

\* C17: when a mosaic task has ended, with its result or with an exception,
\* none of the raster handles it opened is open.
C17_HandlesClosed ==
    \A t \in DOMAIN mstate :
        mstate[t] \in {"done", "failed"} => \A h \in handles : h[1] # t

(***************************************************************************)
(* The mosaic step on a directory that earlier calls of process_grids on   *)
(* the same base_dir left rasters in: the state after get_noaa_grids       *)
(* returned for two zones, with the rasters of this call and any of the    *)
(* rasters of earlier calls for other events, durations and variants.      *)
(***************************************************************************)
LeftByEarlierRuns ==
    {"se5yr24ha.asc", "orb5yr24ha.asc", "se25yr24ha.asc", "orb25yr24ha.asc",
     "se1000yr24ha.asc", "se100yr06ha.asc", "se100yr24hau.asc", "orb100yr24hau.asc"}

GroupEventLists == {<<"5">>, <<"25">>, <<"100">>}

InitGroup ==
    /\ event_list \in GroupEventLists
    /\ dur_list = <<"24h">>
    /\ CI_100yr \in BOOLEAN
    /\ pc = "fetched"
    /\ calls = {"get_noaa_grids", "find_noaa_zones"}
    /\ dirs = {"NOAA_grids"}
    /\ zone_list = <<"se", "orb">>
    /\ file_tasks = FileTasks(zone_list, event_list, dur_list, CI_100yr)
    /\ fstate = [t \in DOMAIN file_tasks |-> "done"]
    /\ attempt = [t \in DOMAIN file_tasks |-> 0]
    /\ slept = [t \in DOMAIN file_tasks |-> << >>]
    /\ faults = 0
    /\ \E left \in SUBSET LeftByEarlierRuns :
          grids = [f \in left \cup {ArchiveMember(file_tasks[t][2]) : t \in DOMAIN file_tasks}
                     |-> "full"]
    /\ mosaic = EmptyDir
    /\ mosaic_tasks = << >>
    /\ mstate = << >>
    /\ grids_folder = "none"
    /\ dur_index = 0
    /\ handles = {}
    /\ ci_log = << >>
    /\ run = 1
    /\ sources = << >>
    /\ written = << >>

NextGroup ==
    \/ CombineMultipleZones
    \/ \E t \in DOMAIN mstate : StartMosaic(t)
    \/ \E t \in DOMAIN mstate, o \in MosaicOutcomes : MosaicListOfRasters(t, o)
    \/ MosaicResultRaises
    \/ MosaicRaises
    \/ MosaicReturns

SpecGroup == InitGroup /\ [][NextGroup]_vars

\* The prefixes of the model's file names that consist of letters.
C12_LetterPrefixes ==
    {NamePrefixes[i] : i \in {j \in DOMAIN NamePrefixes :
        \A k \in DOMAIN CharsOf(NamePrefixes[j]) : CharsOf(NamePrefixes[j])[k] \in Letters}}

\* The files of NOAA_grids whose whole name is letters, then {e}yr{d}a{v}.asc
C12_Matching(e, d, v) ==
    {f \in DOMAIN grids :
        \E p \in C12_LetterPrefixes : f = p \o e \o "yr" \o d \o "a" \o v \o ".asc"}

C12_TasksOf(e, d, v) ==
    {t \in DOMAIN mosaic_tasks :
        /\ mosaic_tasks[t].event = e
        /\ mosaic_tasks[t].dur = d
        /\ mosaic_tasks[t].CI = v}

\* C12: in the mosaic step, for every requested event e and duration d and
\* every variant v (base for every event, upper and lower for event 100
\* only), a mosaic task of (e, d, v) exists if and only if at least two files
\* of NOAA_grids have a whole name of letters followed by {e}yr{d}a{v}.asc;
\* its inputs are exactly those files; comb{e}yr{d}a{v}.asc exists when the
\* task has returned and only if there is such a task; and nothing else is
\* in the mosaic folder.
C12_GroupsExact ==
    (pc \in {"mosaic", "mosaic_raising", "grids_folder_set"}
        /\ "combine_multiple_zones" \in calls)
    => /\ \A e \in Range(event_list), d \in Range(dur_list), v \in Variants :
             /\ C12_TasksOf(e, d, v) # {}
                  <=> ((v = "" \/ e = "100") /\ Cardinality(C12_Matching(e, d, v)) >= 2)
             /\ \A t \in C12_TasksOf(e, d, v) :
                   /\ mosaic_tasks[t].rasters = C12_Matching(e, d, v)
                   /\ mstate[t] = "done" => Exists(mosaic, OutputName(mosaic_tasks[t]))
       /\ \A t \in DOMAIN mosaic_tasks :
             /\ mosaic_tasks[t].event \in Range(event_list)
             /\ mosaic_tasks[t].dur \in Range(dur_list)
       /\ DOMAIN mosaic \subseteq {OutputName(mosaic_tasks[t]) : t \in DOMAIN mosaic_tasks}

C12_Witness ==
    /\ pc = "grids_folder_set"
    /\ event_list = <<"5">>
    /\ {"se25yr24ha.asc", "orb25yr24ha.asc"} \subseteq DOMAIN grids
    /\ Len(mosaic_tasks) = 1
    /\ mosaic_tasks[1].rasters = {"se5yr24ha.asc", "orb5yr24ha.asc"}
    /\ Exists(mosaic, "comb5yr24ha.asc")
    /\ mosaic["comb5yr24ha.asc"] = "full"

(***************************************************************************)
(* The values of the rasters.  mosaic_list_of_rasters, lines 141-155, on   *)
(* the pixels: a raster is a function from the pixels of its extent, an    *)
(* interval of a common grid, to a value or NoData.                        *)
(***************************************************************************)
pipeline_vars ==
    <<event_list, dur_list, CI_100yr, calls, dirs, grids, mosaic, zone_list, file_tasks,
      fstate, attempt, slept, faults, mosaic_tasks, mstate, grids_folder, dur_index,
      handles, ci_log, run>>

\* The state of a process that has called nothing but one raster operation.
NoPipeline ==
    /\ event_list = << >>
    /\ dur_list = << >>
    /\ CI_100yr = FALSE
    /\ calls = {}
    /\ dirs = {}
    /\ grids = EmptyDir
    /\ mosaic = EmptyDir
    /\ zone_list = << >>
    /\ file_tasks = << >>
    /\ fstate = << >>
    /\ attempt = << >>
    /\ slept = << >>
    /\ faults = 0
    /\ mosaic_tasks = << >>
    /\ mstate = << >>
    /\ grids_folder = "none"
    /\ dur_index = 0
    /\ handles = {}
    /\ ci_log = << >>
    /\ run = 1

\* The NODATA_value of the publisher's grids.
NoData == -9999

\* The extents of the rasters of the model: intervals that overlap, that
\* touch and that leave a gap.
Extents == {<<1, 1>>, <<1, 2>>, <<2, 3>>, <<3, 3>>}

\* The pixels of the common grid.
Grid == UNION {ext[1]..ext[2] : ext \in Extents}

PixelValues == (1..MaxValue) \cup {NoData}

Rasters == UNION {[ext[1]..ext[2] -> PixelValues] : ext \in Extents}

RasterLists == [1..2 -> Rasters] \cup [1..3 -> Rasters]

Max(a, b) == IF a >= b THEN a ELSE b

\* Variant of CopyMax for method='first'.
CopyFirst(merged, new) == IF merged = NoData THEN new ELSE merged

\* merge(method='max') on one pixel of the destination: where both the
\* destination and the new raster hold data, the maximum; where only the new
\* raster does, its value; else the destination is left as it is.
CopyMax(merged, new) ==
    IF merged # NoData /\ new # NoData THEN Max(merged, new)
    ELSE IF merged = NoData /\ new # NoData THEN new
    ELSE merged

\* The extent of the destination: the bounds of all the sources.
OutputExtent(srcs) ==
    LET pixels == UNION {DOMAIN srcs[k] : k \in DOMAIN srcs}
    IN  {i \in Grid : (\E j \in pixels : j <= i) /\ (\E j \in pixels : j >= i)}

\* merge takes the sources in the order of the list.
RECURSIVE MergeLoop(_, _)
MergeLoop(dest, srcs) ==
    IF srcs = << >> THEN dest
    ELSE MergeLoop([i \in DOMAIN dest |->
                        IF i \in DOMAIN Head(srcs) THEN CopyMax(dest[i], Head(srcs)[i])
                        ELSE dest[i]],
                   Tail(srcs))

\* Line 144: the destination starts as NoData.
Merge(srcs) == MergeLoop([i \in OutputExtent(srcs) |-> NoData], srcs)

InitMerge ==
    /\ NoPipeline
    /\ pc = "merge"
    /\ sources \in RasterLists
    /\ written = << >>

\* Lines 142-155: the mosaic of the sources is written.
MergeAndWrite ==
    /\ pc = "merge"
    /\ written' = Merge(sources)
    /\ pc' = "merged"
    /\ UNCHANGED <<pipeline_vars, sources>>

NextMerge == MergeAndWrite

SpecMerge == InitMerge /\ [][NextMerge]_vars

\* The real values the sources hold at pixel i.
C13_RealValues(i) ==
    {sources[k][i] : k \in {j \in DOMAIN sources :
                                i \in DOMAIN sources[j] /\ sources[j][i] # NoData}}

C13_Permutations ==
    {p \in [DOMAIN sources -> DOMAIN sources] : \A k \in DOMAIN sources : \E j \in DOMAIN sources : p[j] = k}

\* C13: the mosaic covers the bounds of the sources; each of its pixels is
\* the maximum of the real values the sources hold at that pixel (the one
\* value where only one source has one) and NoData where no source has a
\* real value; and the mosaic of the same sources in any other order is the
\* same.
C13_MaxCompositing ==
    pc = "merged" =>
        /\ DOMAIN written = OutputExtent(sources)
        /\ \A i \in DOMAIN written :
              IF C13_RealValues(i) = {} THEN written[i] = NoData
              ELSE /\ written[i] \in C13_RealValues(i)
                   /\ \A v \in C13_RealValues(i) : v <= written[i]
        /\ \A p \in C13_Permutations :
              Merge([k \in DOMAIN sources |-> sources[p[k]]]) = written

\* Raster A greater than raster B in the overlap, and a pixel only B covers.
C13_Witness ==
    /\ pc = "merged"
    /\ Len(sources) = 2
    /\ DOMAIN sources[1] = 1..2
    /\ DOMAIN sources[2] = 2..3
    /\ sources[1][2] # NoData
    /\ sources[2][2] > sources[1][2]
    /\ sources[2][3] # NoData
    /\ written[2] = sources[2][2]
    /\ written[3] = sources[2][3]
    /\ written[1] = sources[1][1]

(***************************************************************************)
(* compute_1pct_plus_and_minus, lines 165-201, on the values.  A raster is *)
(* its shape (rows, columns), its transform and the value of its pixels,   *)
(* the same at every pixel, in thousandths of an inch.                     *)
(*                                                                         *)
(* Floating-point numbers are records: nan, or a number num.  Depths are   *)
(* kept in thousandths; the depths of the model are 1000 * 2^k, so that    *)
(* their logarithms are whole multiples of ln 2, and a logarithm is kept   *)
(* in fixed point, LogScale units for ln 2, a scale at which the division  *)
(* by 1.645 and the product with the quantile are exact.  The result of    *)
(* np.exp is kept as its logarithm.                                        *)
(***************************************************************************)
Shapes == {<<1, 2>>, <<2, 2>>, <<2, 3>>}

Transforms == {"T1", "T2"}

DepthValues == {NoData, 0, 250, 500, 1000, 2000}

InputRasters == [shape : Shapes, transform : Transforms, value : DepthValues]

Float(n) == [nan |-> FALSE, num |-> n]

NaN == [nan |-> TRUE, num |-> 0]

\* Variant of ReadDepth without the mask of line 177.
ReadUnmasked(value) == Float(IF value <= 0 THEN 1000 ELSE value)

\* Lines 176-178: arr[arr <= 0] = np.nan (the division by 1000 is in Log).
ReadDepth(value) == IF value <= 0 THEN NaN ELSE Float(value)

\* 1.645 = 329 / 200 and a quantile in thousandths: units for ln 2.
LogScale == 329 * 500

\* np.log of a depth of value / 1000 inches, value = 1000 * 2^k.
Log(x) ==
    IF x.nan THEN NaN
    ELSE Float(LogScale * (CHOOSE k \in -3..3 :
                              \/ k >= 0 /\ x.num = 1000 * 2^k
                              \/ k < 0 /\ x.num * 2^(0 - k) = 1000))

Minus(a, b) == IF a.nan \/ b.nan THEN NaN ELSE Float(a.num - b.num)

Plus(a, b) == IF a.nan \/ b.nan THEN NaN ELSE Float(a.num + b.num)

\* Lines 182-183: the division by 1.645.
DivideBy1645(a) == IF a.nan THEN NaN ELSE Float((a.num * 200) \div 329)

\* Variant of Maximum that returns its first argument.
FirstOf(a, b) == a

\* np.maximum, which returns nan when either argument is nan.
Maximum(a, b) ==
    IF a.nan \/ b.nan THEN NaN ELSE IF a.num >= b.num THEN a ELSE b

\* np.sqrt(2) * special.erfinv(x / 100), in thousandths, at the arguments of
\* lines 186-187.
Sqrt2ErfInv(x) == CASE x = 68 -> 994 [] x = 0 - 68 -> 0 - 994

\* The product of an array and a number given in thousandths.
Times(a, thousandths) == IF a.nan THEN NaN ELSE Float((a.num * thousandths) \div 1000)

\* Lines 186-187 without np.exp: mu + sigma_max * sqrt(2) * erfinv(2p - 1),
\* p in hundredths.
LogPercentile(mu, sigma_max, p) ==
    Plus(mu, Times(sigma_max, Sqrt2ErfInv(2 * p - 100)))

\* The shape of the result of an operation of numpy on two arrays; << >>
\* when the shapes cannot be broadcast, which raises ValueError.
Broadcast(s1, s2) ==
    IF s1 = << >> \/ s2 = << >> THEN << >>
    ELSE IF \A i \in 1..2 : s1[i] = s2[i] \/ s1[i] = 1 \/ s2[i] = 1
         THEN <<Max(s1[1], s2[1]), Max(s1[2], s2[2])>>
         ELSE << >>

NotWritten == [state |-> "none"]

BadFile == [state |-> "bad"]

\* Lines 192-197: a raster with the meta of base, nodata nan, and the data.
OutputRaster(base, data) ==
    [state |-> "full", shape |-> base.shape, transform |-> base.transform, ln |-> data]

\* What the call writes: nothing when an operation of lines 181-184 raises;
\* both rasters when the arrays have the shape of base; when they are
\* larger than base, either the write of _plus raises, or both are written.
ComputeResults(base, upper, lower) ==
    LET mu == Log(ReadDepth(base.value))
        sigma_lower == DivideBy1645(Minus(mu, Log(ReadDepth(lower.value))))
        sigma_upper == DivideBy1645(Minus(Log(ReadDepth(upper.value)), mu))
        sigma_max == Maximum(sigma_lower, sigma_upper)
        p_1pct_minus == LogPercentile(mu, sigma_max, 16)
        p_1pct_plus == LogPercentile(mu, sigma_max, 84)
        shape == Broadcast(Broadcast(base.shape, lower.shape), upper.shape)
        both == [plus |-> OutputRaster(base, p_1pct_plus),
                 minus |-> OutputRaster(base, p_1pct_minus)]
    IN  IF shape = << >> THEN {[plus |-> NotWritten, minus |-> NotWritten]}
        ELSE IF shape = base.shape THEN {both}
        ELSE {both, [plus |-> BadFile, minus |-> NotWritten]}

InitCompute ==
    /\ NoPipeline
    /\ pc = "compute"
    /\ sources \in [base : InputRasters, upper : InputRasters, lower : InputRasters]
    /\ written = [plus |-> NotWritten, minus |-> NotWritten]

Compute ==
    /\ pc = "compute"
    /\ written' \in ComputeResults(sources.base, sources.upper, sources.lower)
    /\ pc' = "computed"
    /\ UNCHANGED <<pipeline_vars, sources>>

NextCompute == Compute

SpecCompute == InitCompute /\ [][NextCompute]_vars

C16_Positive == \A r \in {"base", "upper", "lower"} : sources[r].value > 0

\* The logarithm of the depth of a raster, in the units of Log.
C16_Ln(r) == Log(Float(sources[r].value)).num

\* C16: in the rasters the call writes, at a pixel where the three inputs
\* are positive with lower < base < upper, ln(minus) < ln(base) < ln(plus),
\* ln(plus) - ln(base) = ln(base) - ln(minus), and that distance is the
\* quantile times the greater of (ln(base) - ln(lower)) / 1.645 and
\* (ln(upper) - ln(base)) / 1.645; at a pixel where one of the inputs is not
\* positive both written values are nan, the nodata of the outputs.
C16_LogSymmetricBounds ==
    (pc = "computed" /\ written.plus.state = "full" /\ written.minus.state = "full")
    => /\ (C16_Positive
            /\ sources.lower.value < sources.base.value
            /\ sources.base.value < sources.upper.value)
          => /\ ~written.plus.ln.nan
             /\ ~written.minus.ln.nan
             /\ written.minus.ln.num < C16_Ln("base")
             /\ C16_Ln("base") < written.plus.ln.num
             /\ written.plus.ln.num - C16_Ln("base") = C16_Ln("base") - written.minus.ln.num
             /\ (written.plus.ln.num - C16_Ln("base")) * 1645 =
                   994 * Max(C16_Ln("base") - C16_Ln("lower"), C16_Ln("upper") - C16_Ln("base"))
       /\ ~C16_Positive => /\ written.plus.ln.nan
                           /\ written.minus.ln.nan

\* Lower farther from base than upper is, in log space.
C16_Witness ==
    /\ pc = "computed"
    /\ sources.base.value = 1000
    /\ sources.lower.value = 250
    /\ sources.upper.value = 2000
    /\ sources.base.shape = sources.lower.shape
    /\ sources.base.shape = sources.upper.shape
    /\ written.plus.state = "full"
    /\ written.minus.state = "full"
    /\ written.plus.ln.num > 0
    /\ written.minus.ln.num = 0 - written.plus.ln.num

\* C19: for a triple of rasters that differ in shape or in transform, the
\* call writes neither the _plus nor the _minus raster.
C19_MismatchRejected ==
    (pc = "computed"
        /\ \E r \in {"upper", "lower"} :
              \/ sources[r].shape # sources.base.shape
              \/ sources[r].transform # sources.base.transform)
    => /\ written.plus.state = "none"
       /\ written.minus.state = "none"

(***************************************************************************)
(* Calls of process_grids, one after the other, on the same base_dir: the  *)
(* directories and their files stay, everything else starts anew.  The     *)
(* request is the same in every call; the project area, and so the zones,  *)
(* may differ.  Every download of these calls succeeds.                    *)
(***************************************************************************)
InitRuns ==
    /\ Init
    /\ event_list = <<"100">>
    /\ dur_list = <<"24h">>
    /\ CI_100yr = TRUE

\* mkdir(parents=True, exist_ok=True) of line 244 keeps what base_dir holds.
NewRun ==
    /\ pc \in {"done", "raised"}
    /\ run < MaxRuns
    /\ run' = run + 1
    /\ pc' = "start"
    /\ calls' = {}
    /\ zone_list' = << >>
    /\ file_tasks' = << >>
    /\ fstate' = << >>
    /\ attempt' = << >>
    /\ slept' = << >>
    /\ mosaic_tasks' = << >>
    /\ mstate' = << >>
    /\ grids_folder' = "none"
    /\ dur_index' = 0
    /\ handles' = {}
    /\ ci_log' = << >>
    /\ UNCHANGED <<input_vars, dirs, grids, mosaic, faults, raster_vars>>

NextRuns ==
    \/ Validate
    \/ MakeGridsFolder
    \/ FindZonesFails
    \/ \E query \in ZoneQueryResults : FindZones(query)
    \/ \E t \in Tasks : StartFetch(t)
    \/ \E t \in Tasks : Attempt(t, "ok")
    \/ FetchReturns
    \/ CombineMultipleZones
    \/ SkipMosaic
    \/ \E t \in DOMAIN mstate : StartMosaic(t)
    \/ \E t \in DOMAIN mstate, o \in MosaicOutcomes : MosaicListOfRasters(t, o)
    \/ MosaicResultRaises
    \/ MosaicRaises
    \/ MosaicReturns
    \/ ConfidenceIntervalsOrDone
    \/ MissingFiles
    \/ \E base \in DOMAIN FolderDir, o \in ComputeOutcomes : ProcessDuration(base, o)
    \/ ConfidenceIntervalsReturn
    \/ NewRun

SpecRuns == InitRuns /\ [][NextRuns]_vars

\* The prefix of a file name of the model: a zone code, or comb.
C20_Prefix(f) ==
    CHOOSE p \in Range(NamePrefixes) :
        \E k \in 0..(NameCount - 1) : NamePieces(k)[1] = p /\ Joined(NamePieces(k)) = f

\* The mosaics the tasks of this run have written.
C20_MosaicsOfRun ==
    {OutputName(mosaic_tasks[t]) : t \in {u \in DOMAIN mstate : mstate[u] = "done"}}

\* C20: every raster of a mosaic group is of a zone resolved in this run;
\* and the base, upper and lower rasters taken for a duration are of one
\* zone, resolved in this run, or are all mosaics of this run.
C20_OnlyZonesOfRun ==
    /\ \A t \in DOMAIN mosaic_tasks :
          \A f \in mosaic_tasks[t].rasters : C20_Prefix(f) \in Range(zone_list)
    /\ \A i \in DOMAIN ci_log :
          ci_log[i].result # "missing" =>
              \/ \E z \in Range(zone_list) :
                    /\ C20_Prefix(ci_log[i].base) = z
                    /\ C20_Prefix(ci_log[i].upper) = z
                    /\ C20_Prefix(ci_log[i].lower) = z
              \/ {ci_log[i].base, ci_log[i].upper, ci_log[i].lower} \subseteq C20_MosaicsOfRun
====
